---- MODULE Spec2Model ----
(***************************************************************************)
(* Model of src/server.py: the search cache service.                       *)
(*                                                                         *)
(*  - normalize_filters / cache_key_from_filters are pure functions over   *)
(*    JSON values; they are modelled as operators over tagged values and   *)
(*    exercised by the specification SpecKey.                              *)
(*  - get_cached_or_refresh is a coroutine that suspends at the store      *)
(*    read, the upstream HTTP call and the store upsert; cleanup_job is    *)
(*    the periodic sweeper.  They are exercised by the specification Spec. *)
(*                                                                         *)
(* The clock counts minutes and advances in steps of TickMinutes.          *)
(***************************************************************************)
EXTENDS Integers, Sequences, FiniteSets, TLC

(***************************************************************************)
(* JSON values.  A value is a record [t, v]: t is the Python type the code *)
(* tests with isinstance, v the content.  A str is a sequence of           *)
(* characters, a dict a sequence of <<key, value>> pairs with distinct     *)
(* keys (Python dicts keep insertion order), a list a sequence of values.  *)
(***************************************************************************)
None == [t |-> "null", v |-> 0]
Num(n) == [t |-> "num", v |-> n]
Bool(b) == [t |-> "bool", v |-> b]
Str(s) == [t |-> "str", v |-> s]
Dict(items) == [t |-> "dict", v |-> items]
List(elems) == [t |-> "list", v |-> elems]

Keys(d) == {d.v[i][1] : i \in 1..Len(d.v)}
Get(d, k) == d.v[CHOOSE i \in 1..Len(d.v) : d.v[i][1] = k][2]

\* Unicode code points of the characters the model uses.
Ord == (" " :> 32) @@ ("A" :> 65) @@ ("B" :> 66) @@ ("a" :> 97) @@ ("b" :> 98)

IsSpace(c) == c = " "

LowerChar(c) == IF c = "A" THEN "a" ELSE IF c = "B" THEN "b" ELSE c
\* variant of lower: the characters are left in their case
lower_unchanged(s) == s

\* str.lower(), character by character
lower(s) == [i \in 1..Len(s) |-> LowerChar(s[i])]

\* str.strip(): drops leading and trailing whitespace, keeps the inside
RECURSIVE lstrip(_)
lstrip(s) == IF s # <<>> /\ IsSpace(Head(s)) THEN lstrip(Tail(s)) ELSE s
RECURSIVE rstrip(_)
rstrip(s) ==
  IF s # <<>> /\ IsSpace(s[Len(s)]) THEN rstrip(SubSeq(s, 1, Len(s) - 1)) ELSE s
\* variant of strip: only the leading whitespace is dropped
strip_leading_only(s) == lstrip(s)

strip(s) == rstrip(lstrip(s))

IsNotNone(x) == x.t # "null"
ItemIsNotNone(item) == IsNotNone(item[2])

\* norm, the inner function of normalize_filters
RECURSIVE norm(_)
norm(x) ==
  CASE x.t = "str" -> Str(lower(strip(x.v)))
    [] x.t = "dict" ->
         LET kept == SelectSeq(x.v, ItemIsNotNone)
         IN Dict([i \in 1..Len(kept) |-> <<kept[i][1], norm(kept[i][2])>>])
    [] x.t = "list" ->
         LET kept == SelectSeq(x.v, IsNotNone)
         IN List([i \in 1..Len(kept) |-> norm(kept[i])])
    [] OTHER -> x

\* variant of normalize_filters: entries whose value comes out as an empty
\* mapping or an empty list are dropped as well
normalize_filters_drop_empty(filters) ==
  LET out == norm(Dict(SelectSeq(filters.v, ItemIsNotNone)))
      NotEmptyContainer(item) == ~(item[2].t \in {"dict", "list"} /\ item[2].v = <<>>)
  IN Dict(SelectSeq(out.v, NotEmptyContainer))

normalize_filters(filters) == norm(Dict(SelectSeq(filters.v, ItemIsNotNone)))

\* variant of SortItems: the items stay in insertion order
SortItems_insertion_order(items) == items

\* sorted(items) by key, as json.dumps(sort_keys=True) orders them
RECURSIVE SortItems(_)
SortItems(items) ==
  IF items = <<>> THEN <<>>
  ELSE LET m == CHOOSE i \in 1..Len(items) :
                  \A j \in 1..Len(items) : Ord[items[i][1]] <= Ord[items[j][1]]
           rest == [j \in 1..(Len(items) - 1) |->
                      IF j < m THEN items[j] ELSE items[j + 1]]
       IN <<items[m]>> \o SortItems(rest)

Quoted(s) == <<"\"">> \o s \o <<"\"">>

\* json.dumps(x, sort_keys=True, separators=(",", ":")) as a sequence of
\* text tokens
RECURSIVE json_dumps(_)
RECURSIVE DumpItems(_)
RECURSIVE DumpElems(_)
DumpItems(items) ==
  IF items = <<>> THEN <<>>
  ELSE Quoted(<<items[1][1]>>) \o <<":">> \o json_dumps(items[1][2])
       \o (IF Len(items) > 1 THEN <<",">> ELSE <<>>) \o DumpItems(Tail(items))
DumpElems(elems) ==
  IF elems = <<>> THEN <<>>
  ELSE json_dumps(elems[1])
       \o (IF Len(elems) > 1 THEN <<",">> ELSE <<>>) \o DumpElems(Tail(elems))
json_dumps(x) ==
  CASE x.t = "str" -> Quoted(x.v)
    [] x.t = "num" -> <<ToString(x.v)>>
    [] x.t = "bool" -> IF x.v THEN <<"true">> ELSE <<"false">>
    [] x.t = "null" -> <<"null">>
    [] x.t = "dict" -> <<"{">> \o DumpItems(SortItems(x.v)) \o <<"}">>
    [] x.t = "list" -> <<"[">> \o DumpElems(x.v) \o <<"]">>

\* hashlib.sha256(text).hexdigest(): an injective symbol over the text
sha256_hexdigest(text) == [t |-> "sha256", v |-> text]

cache_key_from_filters(filters) ==
  LET normalized == normalize_filters(filters)
      dump == json_dumps(normalized)
  IN sha256_hexdigest(dump)

(***************************************************************************)
(* Bounds of the model.                                                    *)
(***************************************************************************)
\* minutes between two readings of the clock
TickMinutes == 10
\* the clock advances at most this many times
MaxTicks == 2
\* longest list value among the filter sets of SpecKey
MaxListLen == 2

(***************************************************************************)
(* Configuration.                                                          *)
(***************************************************************************)
\* int(os.getenv("CACHE_TTL_MINUTES", "10"))
CACHE_TTL_MINUTES == 10

(***************************************************************************)
(* Inputs.                                                                 *)
(***************************************************************************)
SeqsUpTo(S, n) == UNION {[1..m -> S] : m \in 0..n}

\* elements of list values
ListElems == {None, Num(1), Str(<<"a">>), Str(<<" ", "A", " ">>)}
ListValues == {List(s) : s \in SeqsUpTo(ListElems, MaxListLen)}

\* values inside nested mappings
InnerValues == {None, Str(<<"a">>), Str(<<" ", "A", " ">>), List(<<None>>)}
InnerDicts ==
  {Dict(<<>>)}
  \cup {Dict(<< <<k, x>> >>) : k \in {"a", "B"}, x \in InnerValues}
  \cup {Dict(<< <<k[1], x>>, <<k[2], y>> >>) :
          k \in {<<"a", "B">>, <<"B", "a">>}, x \in InnerValues, y \in InnerValues}

ScalarValues == {None, Num(1), Bool(TRUE), Str(<<"a">>), Str(<<" ", "A", " ">>),
                 Str(<<"a", " ", "b">>)}
ValuesA == ScalarValues \cup ListValues \cup InnerDicts
           \cup {List(<<Dict(<< <<"a", None>> >>), Str(<<"a">>)>>),
                 List(<<Str(<<"a">>), Dict(<< <<"a", None>> >>)>>)}
ValuesB == {None, Num(1), Str(<<"b">>)}

\* the filter sets of SpecKey: mappings over the keys "a" and "b", in
\* either insertion order
FilterSets ==
  {Dict(<<>>)}
  \cup {Dict(<< <<"a", x>> >>) : x \in ValuesA}
  \cup {Dict(<< <<"b", y>> >>) : y \in ValuesB}
  \cup {Dict(<< <<"a", x>>, <<"b", y>> >>) : x \in ValuesA, y \in ValuesB}
  \cup {Dict(<< <<"b", y>>, <<"a", x>> >>) : x \in ValuesA, y \in ValuesB}

(***************************************************************************)
(* State.                                                                  *)
(***************************************************************************)
VARIABLES
  clock,    \* the UTC wall clock read by utcnow(), in minutes
  cache,    \* the documents of the MongoDB collection
  pc,       \* pc[r]: where call r of get_cached_or_refresh is suspended
  call,     \* call[r]: the arguments and local variables of call r
  ret,      \* ret[r]: how call r ended (returned value or raised exception)
  sweeper,  \* cleanup_job: its position and its local threshold
  nhttp,    \* nhttp[r]: upstream requests sent by call r
  nwrite,   \* nwrite[r]: store writes applied for call r
  applied,  \* the calls whose upsert the store applied, in that order
  swept,    \* calls that were done when cleanup_job deleted a document of their key
  storeerr, \* storeerr[r]: the store operation of call r that the store failed, if any
  received, \* received[r]: the clock when call r got its payload from upstream, -1 before
  f1, f2,   \* SpecKey: the filter sets handed to the pure functions
  k1, k2,   \* SpecKey: the keys derived from f1 and f2
  nf,       \* SpecKey: normalize_filters(f1)
  op        \* SpecKey: which function was applied

reqvars == <<clock, cache, pc, call, ret, sweeper, nhttp, nwrite, applied, swept,
            storeerr, received>>
keyvars == <<f1, f2, k1, k2, nf, op>>
vars == <<clock, cache, pc, call, ret, sweeper, nhttp, nwrite, applied, swept,
          storeerr, received, f1, f2, k1, k2, nf, op>>

\* the calls of get_cached_or_refresh in a behaviour
Reqs == {"r1", "r2"}

\* Python's None for an optional argument, a missing document or an unset local
PyNone == [t |-> "null", v |-> 0]
\* a local variable that has not been assigned yet
Unset == [t |-> "unset", v |-> 0]
NoRet == [kind |-> "running", status |-> 0, value |-> PyNone]

NoCall ==
  [filters |-> PyNone, dotnet_path |-> "", dotnet_method |-> "", body |-> PyNone,
   key |-> PyNone, now |-> 0, doc |-> Unset, sent |-> Unset, response |-> Unset,
   payload |-> Unset, after |-> {}]

utcnow == clock

InitReqs ==
  /\ clock = 0
  /\ cache = {}
  /\ pc = [r \in Reqs |-> "idle"]
  /\ call = [r \in Reqs |-> NoCall]
  /\ ret = [r \in Reqs |-> NoRet]
  /\ sweeper = [pc |-> "idle", threshold |-> 0]
  /\ nhttp = [r \in Reqs |-> 0]
  /\ nwrite = [r \in Reqs |-> 0]
  /\ applied = <<>>
  /\ swept = {}
  /\ storeerr = [r \in Reqs |-> "none"]
  /\ received = [r \in Reqs |-> -1]

InitKeys ==
  /\ f1 = Dict(<<>>)
  /\ f2 = PyNone
  /\ k1 = PyNone
  /\ k2 = PyNone
  /\ nf = PyNone
  /\ op = "init"

(***************************************************************************)
(* SpecKey: the pure functions applied to the filter sets of FilterSets.   *)
(***************************************************************************)
InitKey ==
  /\ InitReqs
  /\ f1 \in FilterSets
  /\ f2 = PyNone
  /\ k1 = PyNone
  /\ k2 = PyNone
  /\ nf = PyNone
  /\ op = "init"

\* cache_key_from_filters applied to f1 and to a second filter set g
DeriveKeys(g) ==
  /\ op = "init"
  /\ f2' = g
  /\ k1' = cache_key_from_filters(f1)
  /\ k2' = cache_key_from_filters(g)
  /\ op' = "keys"
  /\ UNCHANGED <<f1, nf>>
  /\ UNCHANGED reqvars

\* normalize_filters applied to f1; the function builds new objects and
\* leaves its argument as it was
Normalize ==
  /\ op = "init"
  /\ nf' = normalize_filters(f1)
  /\ op' = "normalized"
  /\ UNCHANGED <<f1, f2, k1, k2>>
  /\ UNCHANGED reqvars

NextKey ==
  \/ \E g \in FilterSets : DeriveKeys(g)
  \/ Normalize

SpecKey == InitKey /\ [][NextKey]_vars

(***************************************************************************)
(* Spec: get_cached_or_refresh and cleanup_job over the shared store.      *)
(***************************************************************************)
\* upstream response bodies
Payloads == {List(<<>>), List(<<Num(1)>>)}

\* what the upstream call can produce: a 2xx response with a JSON body, a
\* 2xx response whose body is not JSON, or one of the httpx.HTTPError cases
Responses ==
  {[kind |-> "json", payload |-> p] : p \in Payloads}
  \cup {[kind |-> k, payload |-> PyNone] :
          k \in {"malformed", "connect_error", "timeout", "status_error"}}

\* the exceptions caught by `except httpx.HTTPError`
IsHTTPError(resp) == resp.kind \in {"connect_error", "timeout", "status_error"}

\* the calls of Spec: (filters, dotnet_path, dotnet_method, body).  The first
\* two filter sets normalize alike, the third does not.
Calls ==
  {[filters |-> Dict(<< <<"a", Str(<<" ", "A", " ">>)>>, <<"b", None>> >>),
    dotnet_path |-> "/catalogo/busca", dotnet_method |-> "GET", body |-> PyNone],
   [filters |-> Dict(<< <<"a", Str(<<"a">>)>> >>),
    dotnet_path |-> "/catalogo/busca/avancada", dotnet_method |-> "POST",
    body |-> Dict(<< <<"a", Str(<<"a">>)>> >>)],
   [filters |-> Dict(<< <<"b", Num(1)>> >>),
    dotnet_path |-> "/catalogo/busca/avancada", dotnet_method |-> "POST",
    body |-> Dict(<<>>)],
   [filters |-> Dict(<< <<"b", Num(1)>> >>),
    dotnet_path |-> "/catalogo/busca/avancada", dotnet_method |-> "POST",
    body |-> PyNone]}

\* truth value of an optional dict, as `body or filters` tests it
Truthy(x) == x # PyNone /\ ~(x.t \in {"dict", "list"} /\ x.v = <<>>)

\* timedelta(minutes=CACHE_TTL_MINUTES)
ttl_delta == CACHE_TTL_MINUTES

\* how a call ends: it returns a value, raises HTTPException(status_code), or
\* lets another exception propagate
Returned(value) == [kind |-> "return", status |-> 0, value |-> value]
HTTPException(status_code) == [kind |-> "HTTPException", status |-> status_code, value |-> PyNone]
Raised(exc) == [kind |-> exc, status |-> 0, value |-> PyNone]

\* variant of IsFresh: an entry is served up to twice the TTL
IsFresh_double_ttl(now, doc) == (now - doc.updated_at) <= 2 * ttl_delta

\* variant of IsFresh: an entry whose age is exactly the TTL is stale
IsFresh_strict(now, doc) == (now - doc.updated_at) < ttl_delta

\* (now - doc["updated_at"]) <= ttl_delta
IsFresh(now, doc) == (now - doc.updated_at) <= ttl_delta

\* variant of OnHTTPError: a stale document is served when upstream fails
OnHTTPError_stale_fallback(c) ==
  IF c.doc # PyNone THEN Returned(c.doc.payload) ELSE HTTPException(502)

\* the handler of `except httpx.HTTPError`
OnHTTPError(c) == HTTPException(502)

\* variant of find_one: the query matches no document
find_one_no_match(coll, key) == {PyNone}

\* cache.find_one({"key": key}): a matching document, or None
find_one(coll, key) ==
  IF \E d \in coll : d.key = key THEN {d \in coll : d.key = key} ELSE {PyNone}

\* variant of find_one_and_update: without upsert=True nothing is inserted
find_one_and_update_no_upsert(coll, key, fields) ==
  IF \E d \in coll : d.key = key
  THEN (coll \ {d \in coll : d.key = key}) \cup {fields}
  ELSE coll

\* variant of find_one_and_update: a document with a later updated_at is kept
find_one_and_update_keep_newer(coll, key, fields) ==
  IF \E d \in coll : d.key = key /\ d.updated_at > fields.updated_at
  THEN coll
  ELSE {d \in coll : d.key # key} \cup {fields}

\* variant of find_one_and_update: $set leaves updated_at out
find_one_and_update_payload_only(coll, key, fields) ==
  IF \E d \in coll : d.key = key
  THEN {IF d.key = key THEN [d EXCEPT !.payload = fields.payload] ELSE d : d \in coll}
  ELSE coll \cup {fields}

\* cache.find_one_and_update({"key": key}, {"$set": fields}, upsert=True):
\* sets the fields of the matching document, or inserts one
find_one_and_update(coll, key, fields) ==
  IF \E d \in coll : d.key = key
  THEN LET d == CHOOSE e \in coll : e.key = key
       IN (coll \ {d}) \cup {[d EXCEPT !.key = fields.key,
                                       !.filters = fields.filters,
                                       !.payload = fields.payload,
                                       !.updated_at = fields.updated_at]}
  ELSE coll \cup {fields}

\* variant of delete_many: the filter is {"$lte": threshold}
delete_many_lte(coll, threshold) == {d \in coll : ~(d.updated_at <= threshold)}

\* cache.delete_many({"updated_at": {"$lt": threshold}})
delete_many(coll, threshold) == {d \in coll : ~(d.updated_at < threshold)}

\* the request get_cached_or_refresh sends upstream
UpstreamRequest(c) ==
  IF c.dotnet_method = "GET"
  THEN [method |-> "GET", path |-> c.dotnet_path, params |-> c.filters, json |-> PyNone]
  ELSE [method |-> "POST", path |-> c.dotnet_path, params |-> PyNone,
        json |-> IF Truthy(c.body) THEN c.body ELSE c.filters]

\* variant of Call: the upstream path is hashed into the key together with
\* the canonical text
Call_key_with_path(r, args) ==
  /\ pc[r] = "idle"
  /\ call' = [call EXCEPT ![r] =
       [filters |-> args.filters,
        dotnet_path |-> args.dotnet_path,
        dotnet_method |-> args.dotnet_method,
        body |-> args.body,
        key |-> sha256_hexdigest(<<args.dotnet_path>>
                                 \o json_dumps(normalize_filters(args.filters))),
        now |-> utcnow,
        doc |-> Unset,
        sent |-> Unset,
        response |-> Unset,
        payload |-> Unset,
        after |-> {q \in Reqs : pc[q] = "done"}]]
  /\ pc' = [pc EXCEPT ![r] = "find_one"]
  /\ UNCHANGED <<clock, cache, ret, sweeper, nhttp, nwrite, applied, swept, storeerr, received>>
  /\ UNCHANGED keyvars

\* the call is made: key and now are computed, the store read is issued
Call(r, args) ==
  /\ pc[r] = "idle"
  /\ call' = [call EXCEPT ![r] =
       [filters |-> args.filters,
        dotnet_path |-> args.dotnet_path,
        dotnet_method |-> args.dotnet_method,
        body |-> args.body,
        key |-> cache_key_from_filters(args.filters),
        now |-> utcnow,
        doc |-> Unset,
        sent |-> Unset,
        response |-> Unset,
        payload |-> Unset,
        after |-> {q \in Reqs : pc[q] = "done"}]]
  /\ pc' = [pc EXCEPT ![r] = "find_one"]
  /\ UNCHANGED <<clock, cache, ret, sweeper, nhttp, nwrite, applied, swept, storeerr, received>>
  /\ UNCHANGED keyvars

\* the store answers find_one; a fresh document is returned (HIT), otherwise
\* the upstream request is sent
FindOne(r) ==
  /\ pc[r] = "find_one"
  /\ \E doc \in find_one(cache, call[r].key) :
       IF doc # PyNone /\ IsFresh(call[r].now, doc)
       THEN /\ call' = [call EXCEPT ![r].doc = doc]
            /\ ret' = [ret EXCEPT ![r] = Returned(doc.payload)]
            /\ pc' = [pc EXCEPT ![r] = "done"]
            /\ UNCHANGED nhttp
       ELSE /\ call' = [call EXCEPT ![r].doc = doc,
                                    ![r].sent = UpstreamRequest(call[r])]
            /\ nhttp' = [nhttp EXCEPT ![r] = @ + 1]
            /\ pc' = [pc EXCEPT ![r] = "http"]
            /\ UNCHANGED ret
  /\ UNCHANGED <<clock, cache, sweeper, nwrite, applied, swept, storeerr, received>>
  /\ UNCHANGED keyvars

\* find_one raises (store unreachable); the exception leaves the call
FindOneFails(r) ==
  /\ pc[r] = "find_one"
  /\ ret' = [ret EXCEPT ![r] = Raised("PyMongoError")]
  /\ pc' = [pc EXCEPT ![r] = "done"]
  /\ storeerr' = [storeerr EXCEPT ![r] = "find_one"]
  /\ UNCHANGED <<clock, cache, call, sweeper, nhttp, nwrite, applied, swept, received>>
  /\ UNCHANGED keyvars

\* variant of HttpResponse: a body that cannot be parsed is kept as the
\* payload None and the upsert is issued
HttpResponse_cache_malformed(r, resp) ==
  /\ pc[r] = "http"
  /\ IF IsHTTPError(resp)
     THEN /\ call' = [call EXCEPT ![r].response = resp]
          /\ ret' = [ret EXCEPT ![r] = OnHTTPError(call[r])]
          /\ pc' = [pc EXCEPT ![r] = "done"]
     ELSE /\ call' = [call EXCEPT ![r].response = resp,
                                  ![r].payload = resp.payload]
          /\ pc' = [pc EXCEPT ![r] = "upsert"]
          /\ UNCHANGED ret
  /\ received' = [received EXCEPT ![r] = IF ~IsHTTPError(resp) THEN utcnow ELSE @]
  /\ UNCHANGED <<clock, cache, sweeper, nhttp, nwrite, applied, swept, storeerr>>
  /\ UNCHANGED keyvars

\* variant of HttpResponse: after a first httpx.HTTPError the request is
\* sent once more
HttpResponse_retry_once(r, resp) ==
  /\ pc[r] = "http"
  /\ IF IsHTTPError(resp) /\ nhttp[r] < 2
     THEN /\ call' = [call EXCEPT ![r].response = resp]
          /\ nhttp' = [nhttp EXCEPT ![r] = @ + 1]
          /\ UNCHANGED <<pc, ret>>
     ELSE IF IsHTTPError(resp)
     THEN /\ call' = [call EXCEPT ![r].response = resp]
          /\ ret' = [ret EXCEPT ![r] = OnHTTPError(call[r])]
          /\ pc' = [pc EXCEPT ![r] = "done"]
          /\ UNCHANGED nhttp
     ELSE IF resp.kind = "malformed"
     THEN /\ call' = [call EXCEPT ![r].response = resp]
          /\ ret' = [ret EXCEPT ![r] = Raised("ValueError")]
          /\ pc' = [pc EXCEPT ![r] = "done"]
          /\ UNCHANGED nhttp
     ELSE /\ call' = [call EXCEPT ![r].response = resp,
                                  ![r].payload = resp.payload]
          /\ pc' = [pc EXCEPT ![r] = "upsert"]
          /\ UNCHANGED <<ret, nhttp>>
  /\ received' = [received EXCEPT ![r] = IF resp.kind = "json" THEN utcnow ELSE @]
  /\ UNCHANGED <<clock, cache, sweeper, nwrite, applied, swept, storeerr>>
  /\ UNCHANGED keyvars

\* the upstream call ends: httpx.HTTPError becomes HTTPException(502), a
\* body that r.json() cannot parse raises ValueError, a JSON body is kept
\* and the upsert is issued
HttpResponse(r, resp) ==
  /\ pc[r] = "http"
  /\ IF IsHTTPError(resp)
     THEN /\ call' = [call EXCEPT ![r].response = resp]
          /\ ret' = [ret EXCEPT ![r] = OnHTTPError(call[r])]
          /\ pc' = [pc EXCEPT ![r] = "done"]
     ELSE IF resp.kind = "malformed"
     THEN /\ call' = [call EXCEPT ![r].response = resp]
          /\ ret' = [ret EXCEPT ![r] = Raised("ValueError")]
          /\ pc' = [pc EXCEPT ![r] = "done"]
     ELSE /\ call' = [call EXCEPT ![r].response = resp,
                                  ![r].payload = resp.payload]
          /\ pc' = [pc EXCEPT ![r] = "upsert"]
          /\ UNCHANGED ret
  /\ received' = [received EXCEPT ![r] = IF resp.kind = "json" THEN utcnow ELSE @]
  /\ UNCHANGED <<clock, cache, sweeper, nhttp, nwrite, applied, swept, storeerr>>
  /\ UNCHANGED keyvars

\* variant of UpsertFields: updated_at is the time of the write
UpsertFields_write_time(c) ==
  [key |-> c.key,
   filters |-> normalize_filters(c.filters),
   payload |-> c.payload,
   updated_at |-> utcnow]

\* variant of UpsertFields: updated_at is set on insert only, an entry that
\* is overwritten keeps the one it had
UpsertFields_keep_created(c) ==
  [key |-> c.key,
   filters |-> normalize_filters(c.filters),
   payload |-> c.payload,
   updated_at |-> IF c.doc \in {Unset, PyNone} THEN c.now ELSE c.doc.updated_at]

\* variant of UpsertFields: the filters are stored as the caller gave them
UpsertFields_raw_filters(c) ==
  [key |-> c.key,
   filters |-> c.filters,
   payload |-> c.payload,
   updated_at |-> c.now]

\* the document get_cached_or_refresh writes
UpsertFields(c) ==
  [key |-> c.key,
   filters |-> normalize_filters(c.filters),
   payload |-> c.payload,
   updated_at |-> c.now]

\* the store applies the upsert and the call returns the payload
FindOneAndUpdate(r) ==
  /\ pc[r] = "upsert"
  /\ cache' = find_one_and_update(cache, call[r].key, UpsertFields(call[r]))
  /\ nwrite' = [nwrite EXCEPT ![r] = @ + 1]
  /\ applied' = Append(applied, r)
  /\ ret' = [ret EXCEPT ![r] = Returned(call[r].payload)]
  /\ pc' = [pc EXCEPT ![r] = "done"]
  /\ UNCHANGED <<clock, call, sweeper, nhttp, swept, storeerr, received>>
  /\ UNCHANGED keyvars

\* variant of FindOneAndUpdateFails: the exception of the upsert is
\* swallowed and the payload is returned
FindOneAndUpdateFails_silent(r) ==
  /\ pc[r] = "upsert"
  /\ ret' = [ret EXCEPT ![r] = Returned(call[r].payload)]
  /\ pc' = [pc EXCEPT ![r] = "done"]
  /\ storeerr' = [storeerr EXCEPT ![r] = "find_one_and_update"]
  /\ UNCHANGED <<clock, cache, call, sweeper, nhttp, nwrite, applied, swept, received>>
  /\ UNCHANGED keyvars

\* find_one_and_update raises (store unreachable); nothing is written
FindOneAndUpdateFails(r) ==
  /\ pc[r] = "upsert"
  /\ ret' = [ret EXCEPT ![r] = Raised("PyMongoError")]
  /\ pc' = [pc EXCEPT ![r] = "done"]
  /\ storeerr' = [storeerr EXCEPT ![r] = "find_one_and_update"]
  /\ UNCHANGED <<clock, cache, call, sweeper, nhttp, nwrite, applied, swept, received>>
  /\ UNCHANGED keyvars

\* cleanup_job starts: the threshold is computed, delete_many is issued
CleanupStart ==
  /\ sweeper.pc = "idle"
  /\ sweeper' = [pc |-> "delete_many", threshold |-> utcnow - ttl_delta]
  /\ UNCHANGED <<clock, cache, pc, call, ret, nhttp, nwrite, applied, swept, storeerr, received>>
  /\ UNCHANGED keyvars

\* the store applies delete_many
DeleteMany ==
  /\ sweeper.pc = "delete_many"
  /\ cache' = delete_many(cache, sweeper.threshold)
  /\ swept' = swept \cup
       {r \in Reqs : pc[r] = "done" /\
          \E d \in cache \ cache' : d.key = call[r].key}
  /\ sweeper' = [sweeper EXCEPT !.pc = "idle"]
  /\ UNCHANGED <<clock, pc, call, ret, nhttp, nwrite, applied, storeerr, received>>
  /\ UNCHANGED keyvars

\* time passes
Tick ==
  /\ clock + TickMinutes <= MaxTicks * TickMinutes
  /\ clock' = clock + TickMinutes
  /\ UNCHANGED <<cache, pc, call, ret, sweeper, nhttp, nwrite, applied, swept, storeerr, received>>
  /\ UNCHANGED keyvars

Init == InitReqs /\ InitKeys

Next ==
  \/ \E r \in Reqs : \E args \in Calls : Call(r, args)
  \/ \E r \in Reqs : FindOne(r)
  \/ \E r \in Reqs : FindOneFails(r)
  \/ \E r \in Reqs : \E resp \in Responses : HttpResponse(r, resp)
  \/ \E r \in Reqs : FindOneAndUpdate(r)
  \/ \E r \in Reqs : FindOneAndUpdateFails(r)
  \/ CleanupStart
  \/ DeleteMany
  \/ Tick

Spec == Init /\ [][Next]_vars

(***************************************************************************)
(* Relations between JSON values used to state the properties of the pure  *)
(* functions.                                                              *)
(***************************************************************************)
CasePairs == {{"a", "A"}, {"b", "B"}}
SameLetter(c, d) == c = d \/ {c, d} \in CasePairs
LowerCaseOf == ("A" :> "a") @@ ("B" :> "b") @@ ("a" :> "a") @@ ("b" :> "b") @@ (" " :> " ")

\* s without its surrounding whitespace
Core(s) ==
  LET ns == {i \in 1..Len(s) : s[i] # " "}
  IN IF ns = {} THEN <<>>
     ELSE SubSeq(s, CHOOSE i \in ns : \A j \in ns : i <= j,
                    CHOOSE i \in ns : \A j \in ns : i >= j)

\* two strings that differ only in letter case or surrounding whitespace
SameText(s, t) ==
  /\ Len(Core(s)) = Len(Core(t))
  /\ \A i \in 1..Len(Core(s)) : SameLetter(Core(s)[i], Core(t)[i])

NonNullKeys(d) == {k \in Keys(d) : Get(d, k) # None}
NonNullElems(l) == SelectSeq(l.v, LAMBDA e : e # None)

\* x and y have the same non-null entries at every nesting level, their
\* strings differing only in letter case or surrounding whitespace
RECURSIVE SameEntries(_, _)
SameEntries(x, y) ==
  /\ x.t = y.t
  /\ CASE x.t = "str" -> SameText(x.v, y.v)
       [] x.t = "dict" ->
            /\ NonNullKeys(x) = NonNullKeys(y)
            /\ \A k \in NonNullKeys(x) : SameEntries(Get(x, k), Get(y, k))
       [] x.t = "list" ->
            /\ Len(NonNullElems(x)) = Len(NonNullElems(y))
            /\ \A i \in 1..Len(NonNullElems(x)) :
                 SameEntries(NonNullElems(x)[i], NonNullElems(y)[i])
       [] OTHER -> x = y

\* y is x with the keys of its mappings (at any level) in another order
RECURSIVE KeysReordered(_, _)
KeysReordered(x, y) ==
  /\ x.t = y.t
  /\ CASE x.t = "dict" ->
            /\ Len(x.v) = Len(y.v)
            /\ Keys(x) = Keys(y)
            /\ \A k \in Keys(x) : KeysReordered(Get(x, k), Get(y, k))
       [] x.t = "list" ->
            /\ Len(x.v) = Len(y.v)
            /\ \A i \in 1..Len(x.v) : KeysReordered(x.v[i], y.v[i])
       [] OTHER -> x = y

\* Python equality of JSON values: mappings compare without their order
RECURSIVE PyEq(_, _)
PyEq(x, y) ==
  /\ x.t = y.t
  /\ CASE x.t = "dict" ->
            /\ Keys(x) = Keys(y)
            /\ \A k \in Keys(x) : PyEq(Get(x, k), Get(y, k))
       [] x.t = "list" ->
            /\ Len(x.v) = Len(y.v)
            /\ \A i \in 1..Len(x.v) : PyEq(x.v[i], y.v[i])
       [] OTHER -> x = y

\* the elements of the list l are pairwise distinct after normalization
DistinctAfterNorm(l) ==
  \A i, j \in 1..Len(norm(l).v) :
    i # j => ~PyEq(norm(l).v[i], norm(l).v[j])

\* t holds the elements of s in another order
IsReordering(s, t) ==
  /\ Len(s) = Len(t)
  /\ s # t
  /\ \E p \in Permutations(1..Len(s)) : \A i \in 1..Len(s) : t[i] = s[p[i]]

\* y is x with the elements of one of its list values, distinct after
\* normalization, in another order
RECURSIVE ListReordered(_, _)
ListReordered(x, y) ==
  /\ x.t = y.t
  /\ CASE x.t = "dict" ->
            /\ Len(x.v) = Len(y.v)
            /\ \A i \in 1..Len(x.v) : x.v[i][1] = y.v[i][1]
            /\ \E i \in 1..Len(x.v) :
                 /\ ListReordered(x.v[i][2], y.v[i][2])
                 /\ \A j \in 1..Len(x.v) : j # i => x.v[j] = y.v[j]
       [] x.t = "list" -> IsReordering(x.v, y.v) /\ DistinctAfterNorm(x)
       [] OTHER -> FALSE

\* as ListReordered, and the reordering changes the relative order of the
\* non-null elements of the list
RECURSIVE NonNullReordered(_, _)
NonNullReordered(x, y) ==
  /\ x.t = y.t
  /\ CASE x.t = "dict" ->
            /\ Len(x.v) = Len(y.v)
            /\ \A i \in 1..Len(x.v) : x.v[i][1] = y.v[i][1]
            /\ \E i \in 1..Len(x.v) :
                 /\ NonNullReordered(x.v[i][2], y.v[i][2])
                 /\ \A j \in 1..Len(x.v) : j # i => x.v[j] = y.v[j]
       [] x.t = "list" ->
            /\ IsReordering(x.v, y.v)
            /\ DistinctAfterNorm(x)
            /\ NonNullElems(x) # NonNullElems(y)
       [] OTHER -> FALSE

\* no null at any depth of mappings and sequences
RECURSIVE NoNulls(_)
NoNulls(x) ==
  CASE x.t = "null" -> FALSE
    [] x.t = "dict" -> \A i \in 1..Len(x.v) : NoNulls(x.v[i][2])
    [] x.t = "list" -> \A i \in 1..Len(x.v) : NoNulls(x.v[i])
    [] OTHER -> TRUE

\* out is the normal form of in: null entries and elements left out, strings
\* trimmed and lowercased, other scalars and the keys as they are, the
\* elements of sequences in their order
RECURSIVE NormalFormOf(_, _)
NormalFormOf(in, out) ==
  /\ out.t = in.t
  /\ CASE in.t = "str" ->
            /\ Len(out.v) = Len(Core(in.v))
            /\ \A i \in 1..Len(out.v) : out.v[i] = LowerCaseOf[Core(in.v)[i]]
       [] in.t = "dict" ->
            /\ Keys(out) = NonNullKeys(in)
            /\ Len(out.v) = Cardinality(NonNullKeys(in))
            /\ \A k \in NonNullKeys(in) : NormalFormOf(Get(in, k), Get(out, k))
       [] in.t = "list" ->
            /\ Len(out.v) = Len(NonNullElems(in))
            /\ \A i \in 1..Len(out.v) : NormalFormOf(NonNullElems(in)[i], out.v[i])
       [] OTHER -> out = in

(***************************************************************************)
(* Properties of the pure functions (SpecKey).                             *)
(***************************************************************************)

\* C8: key determinism.  Two filter sets with the same non-null entries at
\* every nesting level, whose strings differ only in letter case or
\* surrounding whitespace, derive the same key.
C8_KeyDeterminism ==
  (op = "keys" /\ SameEntries(f1, f2)) => k1 = k2

C8_Witness ==
  /\ op = "keys"
  /\ f1 = Dict(<< <<"a", None>>, <<"b", Num(1)>> >>)
  /\ f2 = Dict(<< <<"b", Num(1)>> >>)
  /\ k1 = k2

\* C9 as stated: reordering the keys of a mapping keeps the key, and
\* reordering the elements of a list whose elements are distinct after
\* normalization changes the key.
C9_AnyListReorderChangesKey ==
  /\ (op = "keys" /\ KeysReordered(f1, f2)) => k1 = k2
  /\ (op = "keys" /\ ListReordered(f1, f2)) => k1 # k2

\* C9 amended: reordering the keys of a mapping keeps the key, and
\* reordering the elements of a list so that the relative order of its
\* non-null elements (distinct after normalization) changes, changes the key.
C9_KeyOrderAndListOrder ==
  /\ (op = "keys" /\ KeysReordered(f1, f2)) => k1 = k2
  /\ (op = "keys" /\ NonNullReordered(f1, f2)) => k1 # k2

C9_Witness ==
  /\ op = "keys"
  /\ f1 = Dict(<< <<"a", List(<<Num(1), Str(<<"a">>)>>)>>, <<"b", Num(1)>> >>)
  /\ f2 = Dict(<< <<"a", List(<<Str(<<"a">>), Num(1)>>)>>, <<"b", Num(1)>> >>)
  /\ NonNullReordered(f1, f2)
  /\ k1 # k2

\* C10: normalize_filters returns the normal form of its argument, which
\* holds no null at any depth, and leaves the argument as it was.
C10_NormalizerResult ==
  [][op' = "normalized" =>
       /\ NoNulls(nf')
       /\ NormalFormOf(f1, nf')
       /\ f1' = f1]_vars

C10_Witness ==
  /\ op = "normalized"
  /\ f1 = Dict(<< <<"b", None>>,
                  <<"a", Dict(<< <<"B", List(<<None>>)>>, <<"a", Str(<<" ", "A", " ">>)>> >>)>> >>)
  /\ nf = Dict(<< <<"a", Dict(<< <<"B", List(<<>>)>>, <<"a", Str(<<"a">>)>> >>)>> >>)

(***************************************************************************)
(* Properties of get_cached_or_refresh (Spec).                             *)
(***************************************************************************)
\* the key of the filters of call r, once r has been called
KeyOf(r) ==
  IF call[r].filters = PyNone THEN PyNone ELSE cache_key_from_filters(call[r].filters)
EntriesOf(coll, key) == {d \in coll : d.key = key}

\* the store answers the find_one of call r in this step
FindAnswered(r) ==
  pc[r] = "find_one" /\ pc'[r] # "find_one" /\ ret'[r].kind # "PyMongoError"

\* the upstream call of call r ends in this step
UpstreamEnds(r) == pc[r] = "http" /\ pc'[r] # "http"

\* the store applies the upsert of call r in this step
UpsertApplied(r) ==
  pc[r] = "upsert" /\ pc'[r] = "done" /\ ret'[r].kind = "return"

\* the entry call r is specified to write
EntryOf(r) ==
  [key |-> KeyOf(r),
   filters |-> IF call[r].filters = PyNone THEN PyNone
               ELSE normalize_filters(call[r].filters),
   payload |-> call[r].payload,
   updated_at |-> call[r].now]

\* C1: cache HIT.  When the store answers the lookup of a call and holds an
\* entry for the derived key with now - updated_at <= TTL, now being the
\* time captured when the call started, the call returns that entry's
\* payload, sends nothing upstream, writes nothing, and the store is left
\* as it was.
C1_CacheHit ==
  [][\A r \in Reqs :
       LET fresh == {d \in EntriesOf(cache, KeyOf(r)) :
                       call[r].now - d.updated_at <= CACHE_TTL_MINUTES}
       IN (FindAnswered(r) /\ fresh # {}) =>
            /\ \E d \in fresh : ret'[r] = Returned(d.payload)
            /\ pc'[r] = "done"
            /\ nhttp'[r] = 0
            /\ nwrite'[r] = 0
            /\ cache' = cache]_vars

C1_Witness ==
  \E r \in Reqs :
    /\ pc[r] = "done"
    /\ call[r].doc \in cache
    /\ call[r].now - call[r].doc.updated_at <= CACHE_TTL_MINUTES
    /\ ret[r] = Returned(call[r].doc.payload)
    /\ nhttp[r] = 0

\* C2: refresh on MISS or STALE.  now is the clock when the call starts;
\* when the upstream call succeeded with payload P and the upsert is
\* applied, the store holds exactly one entry for the key, equal to
\* {key, normalize(filters), P, now}, and the call returns P.
C2_RefreshUpserts ==
  [][\A r \in Reqs :
       /\ (pc[r] = "idle" /\ pc'[r] # "idle") => call'[r].now = clock
       /\ UpsertApplied(r) =>
            /\ call[r].response.kind = "json"
            /\ call[r].doc = PyNone
                 \/ call[r].now - call[r].doc.updated_at > CACHE_TTL_MINUTES
            /\ EntriesOf(cache', KeyOf(r)) =
                 {[key |-> KeyOf(r),
                   filters |-> normalize_filters(call[r].filters),
                   payload |-> call[r].response.payload,
                   updated_at |-> call[r].now]}
            /\ ret'[r] = Returned(call[r].response.payload)]_vars

\* a stale entry written by another call has been overwritten in every field
C2_Witness ==
  \E r \in Reqs :
    /\ pc[r] = "done"
    /\ ret[r].kind = "return"
    /\ nwrite[r] = 1
    /\ call[r].doc # PyNone
    /\ call[r].doc.payload # call[r].payload
    /\ call[r].now > 0
    /\ EntriesOf(cache, KeyOf(r)) = {EntryOf(r)}

\* C3: strict freshness.  When the upstream call of a call fails
\* (connection error, timeout or non-2xx status), the call ends with
\* HTTPException 502, returns no payload, stale or not, and writes nothing:
\* the store is left as it was.
C3_UpstreamFailure ==
  [][\A r \in Reqs :
       (UpstreamEnds(r) /\
        call'[r].response.kind \in {"connect_error", "timeout", "status_error"}) =>
          /\ pc'[r] = "done"
          /\ ret'[r].kind = "HTTPException"
          /\ ret'[r].status = 502
          /\ ret'[r].value = PyNone
          /\ nwrite'[r] = 0
          /\ cache' = cache]_vars

\* a stale entry exists, the upstream call failed, the entry is still there
C3_Witness ==
  \E r \in Reqs :
    /\ pc[r] = "done"
    /\ call[r].response # Unset
    /\ call[r].response.kind = "timeout"
    /\ call[r].doc # PyNone
    /\ call[r].doc \in cache
    /\ ret[r] = HTTPException(502)

\* C4: TTL boundary.  At the lookup of a call with start time now, an entry
\* with updated_at < now - TTL (so one with updated_at = now - TTL - 1 tick)
\* is stale: the upstream request is sent.  An entry with
\* updated_at >= now - TTL (so one with updated_at = now - TTL + 1 tick, and
\* one whose age is exactly TTL) is fresh: it is returned and nothing is
\* sent upstream.
C4_TTLBoundary ==
  [][\A r \in Reqs : \A d \in EntriesOf(cache, KeyOf(r)) :
       FindAnswered(r) =>
         /\ d.updated_at <= call[r].now - CACHE_TTL_MINUTES - TickMinutes =>
              (pc'[r] = "http" /\ nhttp'[r] = 1 /\ ret'[r].kind = "running")
         /\ d.updated_at >= call[r].now - CACHE_TTL_MINUTES + TickMinutes =>
              (pc'[r] = "done" /\ nhttp'[r] = 0 /\ ret'[r] = Returned(d.payload))
         /\ d.updated_at = call[r].now - CACHE_TTL_MINUTES =>
              (pc'[r] = "done" /\ nhttp'[r] = 0 /\ ret'[r] = Returned(d.payload))]_vars

\* an entry whose age is exactly TTL was served as a hit
C4_Witness ==
  \E r \in Reqs :
    /\ pc[r] = "done"
    /\ call[r].doc # PyNone
    /\ call[r].doc # Unset
    /\ call[r].doc.updated_at = call[r].now - CACHE_TTL_MINUTES
    /\ ret[r] = Returned(call[r].doc.payload)
    /\ nhttp[r] = 0

\* C5: idempotent refresh.  The first call found no entry and returned the
\* upstream payload; a second call with identical filters that starts after
\* the first returned, within TTL of the first call's start, with no other
\* call and no sweeper deletion of the key in between, is answered from the
\* store: both calls return the same payload and one upstream request was
\* sent in total.
C5_IdempotentRefresh ==
  [][\A r1, r2 \in Reqs :
       (/\ r1 # r2
        /\ FindAnswered(r2)
        /\ r1 \in call[r2].after
        /\ call[r1].filters = call[r2].filters
        /\ call[r1].doc = PyNone
        /\ ret[r1].kind = "return"
        /\ call[r2].now - call[r1].now <= CACHE_TTL_MINUTES
        /\ r1 \notin swept
        /\ \A q \in Reqs \ {r1, r2} : pc[q] = "idle" \/ KeyOf(q) # KeyOf(r1)) =>
          /\ pc'[r2] = "done"
          /\ ret'[r2] = ret[r1]
          /\ nhttp[r1] + nhttp'[r2] = 1]_vars

C5_Witness ==
  \E r1, r2 \in Reqs :
    /\ r1 # r2
    /\ pc[r1] = "done" /\ pc[r2] = "done"
    /\ r1 \in call[r2].after
    /\ call[r1].filters = call[r2].filters
    /\ call[r1].doc = PyNone
    /\ call[r2].now = call[r1].now + CACHE_TTL_MINUTES
    /\ ret[r1].kind = "return"
    /\ ret[r2] = ret[r1]
    /\ nhttp[r1] = 1 /\ nhttp[r2] = 0

\* the find_one of call r answered None
ObservedMiss(r) == call[r].doc = PyNone

\* C6: concurrent misses are last-writer-wins.  Two calls for one key that
\* both observed a miss both send an upstream request; when both have
\* returned, both have upserted, and (unless the sweeper deleted it since)
\* the store holds exactly one entry for the key, with the payload and
\* updated_at written by the upsert that was applied last.
C6_LastWriterWins ==
  \A r1, r2 \in Reqs :
    (/\ r1 # r2
     /\ pc[r1] = "done" /\ pc[r2] = "done"
     /\ KeyOf(r1) = KeyOf(r2)
     /\ ObservedMiss(r1) /\ ObservedMiss(r2)) =>
       /\ nhttp[r1] = 1 /\ nhttp[r2] = 1
       /\ (ret[r1].kind = "return" /\ ret[r2].kind = "return") =>
            /\ nwrite[r1] = 1 /\ nwrite[r2] = 1
            /\ applied # <<>>
            /\ LET w == applied[Len(applied)]
               IN (w \in {r1, r2} /\ w \notin swept) =>
                    \E d \in cache :
                      /\ EntriesOf(cache, KeyOf(r1)) = {d}
                      /\ d.payload = call[w].payload
                      /\ d.updated_at = call[w].now

\* both calls missed; the call that started later upserted first, so the
\* entry carries the earlier start time
C6_Witness ==
  \E r1, r2 \in Reqs :
    /\ pc[r1] = "done" /\ pc[r2] = "done"
    /\ KeyOf(r1) = KeyOf(r2)
    /\ ObservedMiss(r1) /\ ObservedMiss(r2)
    /\ applied = <<r1, r2>>
    /\ call[r2].now < call[r1].now
    /\ call[r1].payload # call[r2].payload
    /\ EntriesOf(cache, KeyOf(r1)) = {EntryOf(r2)}

\* C7: entries are never partially written.  The store holds at most one
\* entry per key, and every entry is, in all its fields, the document
\* written by one upsert of one call.
C7_WholeEntries ==
  /\ \A d, e \in cache : d.key = e.key => d = e
  /\ \A d \in cache : \E r \in Reqs : nwrite[r] = 1 /\ d = EntryOf(r)

\* two upserts with different payloads and times hit the same key
C7_Witness ==
  \E r1, r2 \in Reqs :
    /\ r1 # r2
    /\ nwrite[r1] = 1 /\ nwrite[r2] = 1
    /\ KeyOf(r1) = KeyOf(r2)
    /\ call[r1].payload # call[r2].payload
    /\ call[r1].now # call[r2].now
    /\ Cardinality(cache) = 1

\* C11: malformed upstream responses are not cached.  When the upstream
\* call of a call ends with a 2xx response whose body is not JSON, the call
\* ends with an error (internal or bad gateway), returns no payload and
\* writes nothing: the store is left as it was.
C11_MalformedNotCached ==
  [][\A r \in Reqs :
       (UpstreamEnds(r) /\ call'[r].response.kind = "malformed") =>
          /\ pc'[r] = "done"
          /\ ret'[r].kind \in {"ValueError", "HTTPException"}
          /\ ret'[r].value = PyNone
          /\ nwrite'[r] = 0
          /\ cache' = cache]_vars

\* a stale entry exists, the body was not JSON, the entry is still there
C11_Witness ==
  \E r \in Reqs :
    /\ pc[r] = "done"
    /\ call[r].response # Unset
    /\ call[r].response.kind = "malformed"
    /\ call[r].doc \in cache
    /\ ret[r].kind = "ValueError"
    /\ nwrite[r] = 0

\* C12: no automatic retry.  Every call sends at most one upstream request
\* and has at most one upsert applied; a call whose upstream call failed
\* has ended with the error after that one request; a call answered by a
\* fresh entry has sent none.
C12_NoRetry ==
  \A r \in Reqs :
    /\ nhttp[r] <= 1
    /\ nwrite[r] <= 1
    /\ (call[r].response # Unset /\ IsHTTPError(call[r].response)) =>
         /\ pc[r] = "done"
         /\ ret[r].kind = "HTTPException"
         /\ nhttp[r] = 1
         /\ nwrite[r] = 0
    /\ (pc[r] = "done" /\ call[r].doc \notin {Unset, PyNone}
        /\ call[r].now - call[r].doc.updated_at <= CACHE_TTL_MINUTES) =>
         /\ nhttp[r] = 0
         /\ nwrite[r] = 0

C12_Witness ==
  \E r \in Reqs :
    /\ pc[r] = "done"
    /\ call[r].response # Unset
    /\ call[r].response.kind = "connect_error"
    /\ ret[r] = HTTPException(502)
    /\ nhttp[r] = 1

\* C13: the sweeper agrees with the freshness check.  A run of cleanup_job
\* that reads the clock at t deletes exactly the entries with
\* updated_at < t - TTL and leaves the others as they are; no deleted entry
\* would be a hit for a call that starts at t (t - updated_at <= TTL).
C13_SweeperAgrees ==
  [][/\ (sweeper.pc = "idle" /\ sweeper'.pc = "delete_many") =>
          sweeper'.threshold = clock - CACHE_TTL_MINUTES
     /\ (sweeper.pc = "delete_many" /\ sweeper'.pc = "idle") =>
          LET t == sweeper.threshold + CACHE_TTL_MINUTES
          IN /\ cache' = {d \in cache : ~(d.updated_at < t - CACHE_TTL_MINUTES)}
             /\ \A d \in cache \ cache' : ~(t - d.updated_at <= CACHE_TTL_MINUTES)]_vars

\* a run deleted the entry of one call and left an entry whose age at t was
\* exactly TTL
C13_Witness ==
  /\ sweeper.pc = "idle"
  /\ \E r \in swept : call[r].now < sweeper.threshold
  /\ \E d \in cache : d.updated_at = sweeper.threshold

\* C14 as stated: with POST the JSON body sent upstream is the given body
\* whenever a body is given, an empty mapping included, and the filters
\* only when the body is absent; with GET the filters are the query
\* parameters.
C14_PostBodySelection ==
  \A r \in Reqs :
    call[r].sent # Unset =>
      /\ call[r].sent.method = call[r].dotnet_method
      /\ call[r].dotnet_method = "POST" =>
           call[r].sent.json =
             (IF call[r].body # PyNone THEN call[r].body ELSE call[r].filters)
      /\ call[r].dotnet_method = "GET" =>
           call[r].sent.params = call[r].filters

\* C15: store failures are never turned into a hit or a silent success.
\* When the store fails the lookup or the upsert of a call, the call ends
\* with an error, returns no payload, and the store is left as it was.
C15_StoreFailure ==
  [][\A r \in Reqs :
       /\ storeerr'[r] # storeerr[r] =>
            /\ pc'[r] = "done"
            /\ ret'[r].kind \notin {"return", "running"}
            /\ ret'[r].value = PyNone
            /\ nwrite'[r] = 0
            /\ cache' = cache
       /\ storeerr[r] # "none" => ret'[r] = ret[r]]_vars

\* the upsert over a stale entry failed; the entry is still there
C15_Witness ==
  \E r \in Reqs :
    /\ storeerr[r] = "find_one_and_update"
    /\ call[r].doc \in cache
    /\ ret[r].kind = "PyMongoError"

\* a mapping whose values are all null, or a list whose elements are all
\* null
AllNull(x) ==
  \/ x.t = "dict" /\ \A i \in 1..Len(x.v) : x.v[i][2].t = "null"
  \/ x.t = "list" /\ \A i \in 1..Len(x.v) : x.v[i].t = "null"

EmptyOf(x) == IF x.t = "dict" THEN Dict(<<>>) ELSE List(<<>>)

\* the mapping f without its i-th entry
WithoutEntry(f, i) == Dict(SubSeq(f.v, 1, i - 1) \o SubSeq(f.v, i + 1, Len(f.v)))

\* C16: empty containers are retained.  An entry of the filter set whose
\* value normalizes to an empty mapping or an empty list is in the output of
\* normalize_filters under its key with that empty container as value, and
\* the key of the filter set differs from the key of the filter set without
\* the entry.
C16_EmptyContainersRetained ==
  [][/\ op' = "normalized" =>
          \A i \in 1..Len(f1.v) :
             AllNull(f1.v[i][2]) =>
                \E j \in 1..Len(nf'.v) :
                   /\ nf'.v[j][1] = f1.v[i][1]
                   /\ nf'.v[j][2] = EmptyOf(f1.v[i][2])
     /\ op' = "keys" =>
          \A i \in 1..Len(f1.v) :
             (AllNull(f1.v[i][2]) /\ f2' = WithoutEntry(f1, i)) => k1' # k2']_vars

C16_Witness ==
  /\ op = "keys"
  /\ f1 = Dict(<< <<"a", Dict(<< <<"a", None>> >>)>>, <<"b", Num(1)>> >>)
  /\ f2 = Dict(<< <<"b", Num(1)>> >>)
  /\ k1 = sha256_hexdigest(json_dumps(Dict(<< <<"a", Dict(<<>>)>>, <<"b", Num(1)>> >>)))
  /\ k1 # k2

\* the normal form of the filters of call r, once r has been called
NormOf(r) ==
  IF call[r].filters = PyNone THEN PyNone ELSE normalize_filters(call[r].filters)

\* C17: the key and the hit decision depend on the filter set only.  A call
\* stored a payload and returned; a second call whose filters have the same
\* normal form starts after that, within TTL of the first call's start,
\* with no other call and no sweeper deletion of the key in between: the
\* second call returns the payload the first stored and sends no upstream
\* request, whatever its path, method and body are.
C17_KeyFromFiltersOnly ==
  [][\A r1, r2 \in Reqs :
       (/\ r1 # r2
        /\ FindAnswered(r2)
        /\ r1 \in call[r2].after
        /\ NormOf(r1) = NormOf(r2)
        /\ ret[r1].kind = "return"
        /\ nwrite[r1] = 1
        /\ call[r2].now - call[r1].now <= CACHE_TTL_MINUTES
        /\ r1 \notin swept
        /\ \A q \in Reqs \ {r1, r2} : pc[q] = "idle" \/ KeyOf(q) # KeyOf(r1)) =>
          /\ call[r1].key = call[r2].key
          /\ pc'[r2] = "done"
          /\ ret'[r2] = Returned(call[r1].payload)
          /\ nhttp'[r2] = 0
          /\ nwrite'[r2] = 0]_vars

\* a GET call stored the payload; a POST call with another path, a body and
\* filters written differently is answered from the store
C17_Witness ==
  \E r1, r2 \in Reqs :
    /\ r1 # r2
    /\ pc[r1] = "done" /\ pc[r2] = "done"
    /\ r1 \in call[r2].after
    /\ call[r1].filters # call[r2].filters
    /\ NormOf(r1) = NormOf(r2)
    /\ call[r1].dotnet_method = "GET" /\ call[r2].dotnet_method = "POST"
    /\ call[r1].dotnet_path # call[r2].dotnet_path
    /\ call[r1].body # call[r2].body
    /\ nwrite[r1] = 1
    /\ ret[r2] = Returned(call[r1].payload)
    /\ nhttp[r2] = 0

\* C18: stored entries are self-consistent.  For every entry of the store,
\* its filters are their own normal form and its key is the key derived
\* from its filters.
C18_EntriesSelfConsistent ==
  \A d \in cache :
    /\ d.filters = normalize_filters(d.filters)
    /\ d.key = cache_key_from_filters(d.filters)

\* the store holds the entry of a call whose filters were not in normal
\* form
C18_Witness ==
  \E r \in Reqs :
    /\ nwrite[r] = 1
    /\ call[r].filters # normalize_filters(call[r].filters)
    /\ \E d \in cache :
         /\ d.key = call[r].key
         /\ d.filters = normalize_filters(call[r].filters)

\* the positions in order of application of the upserts for a key, and the
\* call whose upsert for the key the store applied last
WritesOf(order, calls, key) == {i \in 1..Len(order) : calls[order[i]].key = key}
LastWriterOf(order, calls, key) ==
  order[CHOOSE i \in WritesOf(order, calls, key) :
          \A j \in WritesOf(order, calls, key) : j <= i]

\* C19: staleness bound on served data.  After every step, each entry of
\* the store carries the payload of the call that wrote it last and an
\* updated_at no later than the time that call received the payload from
\* upstream; and a call that is answered from the store returns a payload
\* that was received no earlier than the call's start time minus TTL.
C19_StalenessBound ==
  [][/\ \A d \in cache' :
          /\ WritesOf(applied', call', d.key) # {}
          /\ LET w == LastWriterOf(applied', call', d.key)
             IN /\ d.payload = call'[w].payload
                /\ received'[w] >= 0
                /\ d.updated_at <= received'[w]
     /\ \A r \in Reqs :
          (FindAnswered(r) /\ pc'[r] = "done" /\ ret'[r].kind = "return") =>
             /\ WritesOf(applied, call, call[r].key) # {}
             /\ LET w == LastWriterOf(applied, call, call[r].key)
                IN /\ ret'[r].value = call[w].payload
                   /\ received[w] >= call[r].now - CACHE_TTL_MINUTES]_vars

\* a call got its payload after the clock had advanced past its start; a
\* second call that started exactly TTL after the first call's start was
\* answered from the store
C19_Witness ==
  \E w, r \in Reqs :
    /\ w # r
    /\ pc[r] = "done" /\ ret[r].kind = "return" /\ nhttp[r] = 0
    /\ applied = <<w>>
    /\ received[w] > call[w].now
    /\ call[r].now = call[w].now + CACHE_TTL_MINUTES
    /\ ret[r].value = call[w].payload
    /\ \E d \in cache : d.key = call[w].key /\ d.updated_at < received[w]

\* C20 as stated: no step replaces the entry of a key by an entry with a
\* smaller updated_at.
C20_NeverBackwards ==
  [][\A d \in cache, e \in cache' :
       d.key = e.key => e.updated_at >= d.updated_at]_vars

\* C20, for calls that do not overlap: when the store applies the upsert of
\* a call over an entry whose last writer had returned before the call
\* started, the new entry carries the call's start time as updated_at,
\* which is greater than or equal to the updated_at it replaces.
C20_NotBackwardsInSequence ==
  [][\A r \in Reqs :
       UpsertApplied(r) =>
         \A d \in EntriesOf(cache, call[r].key) :
            LastWriterOf(applied, call, d.key) \in call[r].after =>
              \E e \in cache' :
                 /\ EntriesOf(cache', call[r].key) = {e}
                 /\ e.updated_at = call[r].now
                 /\ e.updated_at >= d.updated_at]_vars

\* a call found the stale entry of a call that had returned, and overwrote
\* it with a later updated_at
C20_Witness ==
  \E w, r \in Reqs :
    /\ applied = <<w, r>>
    /\ w \in call[r].after
    /\ call[r].doc \notin {Unset, PyNone}
    /\ call[r].doc.updated_at = call[w].now
    /\ call[w].now < call[r].now
    /\ \E e \in cache : e.key = call[r].key /\ e.updated_at = call[r].now

====
